---- MODULE Spec2Model ----
(***************************************************************************)
(* Computer-Use Action Engine of autogen_a2a_kit/AG_action:                *)
(*   - fsm/states.py, fsm/transitions.py, fsm/controller.py                *)
(*       the finite-state controller (FSMState, TransitionTable,           *)
(*       FSMController)                                                    *)
(*   - computer_use/tool_executor.py, primitives/executor.py               *)
(*       the tool dispatcher (ToolExecutor, ComputerUseExecutor)           *)
(*   - computer_use/agent_loop.py                                          *)
(*       the agent loop (ComputerUseAgent.run)                             *)
(*                                                                         *)
(* Abstractions: payload values (goal text, image bytes, reasons) are      *)
(* abstract tags; the timestamp of a history record (datetime.now()) is    *)
(* not represented; listeners (_emit) do not change controller state and   *)
(* are left out of the handlers.                                           *)
(***************************************************************************)
EXTENDS Integers, Sequences, FiniteSets, TLC

VARIABLES
    \* ---- FSMState (fsm/states.py) ----
    current,            \* FSMState.current
    previous,           \* FSMState.previous ("None" when unset)
    data,               \* FSMState.data  (dict: key -> abstract value)
    history,            \* FSMState.history (list of records)
    error,              \* FSMState.error ("None" when unset)
    \* ---- FSMController (fsm/controller.py) ----
    added,              \* transitions registered with TransitionTable.add
    action_queue,       \* FSMController._action_queue
    max_iterations,     \* FSMController._max_iterations
    current_iteration,  \* FSMController._current_iteration
    \* ---- observation of the last public call ----
    lastCall,           \* name of the operation performed by the last step
    ret,                \* its return value ("None" for a procedure)
    \* ---- the caller of the iteration-bound scenario ----
    caller_pc,          \* next call of the scripted caller
    \* ---- ComputerUseAgent (computer_use/agent_loop.py) ----
    agent,              \* constructor arguments and the optional client
    run,                \* the activation of run(): position, locals, result
    suspended,          \* an activation of run() waiting in asyncio.sleep
    listeners,          \* FSMController._listeners and the callbacks invoked
    \* ---- ToolExecutor (computer_use/tool_executor.py) ----
    exec,               \* one call of ToolExecutor.execute and its outcome
    \* ---- the transcript (ComputerUseAgent._messages) under retention ----
    messages,           \* the transcript, the configured maximum, the call
    \* ---- ScalingInfo / ScreenActions (primitives/screen.py) ----
    screen              \* one Scaling Info and the coordinates converted

fsmVars == <<current, previous, data, history, error>>
ctlVars == <<added, action_queue, max_iterations, current_iteration>>
obsVars == <<lastCall, ret>>
vars == <<current, previous, data, history, error,
          added, action_queue, max_iterations, current_iteration,
          lastCall, ret, caller_pc, agent, run, suspended, listeners,
          exec, messages, screen>>
libVars == <<suspended, listeners, exec, messages, screen>>

----------------------------------------------------------------------------
(* Bounds of the model *)

\* largest controller bound (_max_iterations) chosen at construction
MaxBound == 2
\* number of transitions a caller registers with TransitionTable.add
MaxAdded == 1
\* history records a free caller may produce per controller
MaxHistory == 5
\* largest controller bound of the scripted always-continue caller
MaxLoopBound == 4
\* largest of the small iteration budgets (max_iterations) given to an agent
MaxSmallIterations == 2
\* how far an agent's budget may exceed the controller's own bound
MaxExtraIterations == 1
\* action requests in one model reply
MaxTools == 2
\* run() is called again only on a controller with at most this many records
MaxRerunHistory == 3
\* replies of one run that carry more than one action request
MaxMultiReplies == 1
\* turns of a transcript under the retention policy
MaxTurns == 2
\* content blocks of one turn
MaxBlocks == 2
\* largest configured max_recent_images
MaxImages == 2
\* largest value of a model-space coordinate
MaxCoord == 3
\* turns of a transcript under the cache-hint policy
MaxCacheTurns == 4
\* callbacks registered with FSMController.on
MaxListeners == 2

----------------------------------------------------------------------------
(* fsm/states.py *)

State == {"IDLE", "SCREENSHOT", "ANALYZE", "ACTION", "VERIFY", "ERROR", "COMPLETE"}

None == "None"

\* a Python bool as it is returned to the caller
PyBool(b) == IF b THEN "True" ELSE "False"

EmptyDict == <<>>

\* VALID_TRANSITIONS: the allowed targets of each state
VALID_TRANSITIONS(s) ==
    CASE s = "IDLE"       -> {"SCREENSHOT", "ERROR"}
      [] s = "SCREENSHOT" -> {"ANALYZE", "ERROR"}
      [] s = "ANALYZE"    -> {"ACTION", "ERROR", "COMPLETE"}
      [] s = "ACTION"     -> {"VERIFY", "ERROR"}
      [] s = "VERIFY"     -> {"ANALYZE", "COMPLETE", "ERROR"}
      [] s = "ERROR"      -> {"IDLE"}
      [] s = "COMPLETE"   -> {"IDLE"}
      [] OTHER            -> {}

is_valid_transition_nocheck(from_state, to_state) == TRUE

is_valid_transition(from_state, to_state) ==
    to_state \in VALID_TRANSITIONS(from_state)

\* dict.update: the entries of d override those of old
DictUpdate(old, d) == d @@ old

transition_to_rewrite(new_state, d) ==
    /\ history' = <<[from |-> current, to |-> new_state, data |-> d]>>
    /\ previous' = current
    /\ current' = new_state
    /\ data' = IF d # EmptyDict THEN DictUpdate(data, d) ELSE data

\* FSMState.transition_to: append one record, move, merge the payload
transition_to(new_state, d) ==
    /\ history' = Append(history, [from |-> current, to |-> new_state, data |-> d])
    /\ previous' = current
    /\ current' = new_state
    /\ data' = IF d # EmptyDict THEN DictUpdate(data, d) ELSE data

is_idle == current = "IDLE"

----------------------------------------------------------------------------
(* fsm/transitions.py *)

Event == {"USER_REQUEST", "SCREENSHOT_TAKEN", "ACTION_DECIDED", "ACTION_DONE",
          "NEED_MORE", "TASK_COMPLETE", "ERROR", "RECOVER"}

Tr(e, f, t) == [event |-> e, from_state |-> f, to_state |-> t]

\* TransitionTable._setup_defaults, in registration order
DefaultTransitions ==
    << Tr("USER_REQUEST", "IDLE", "SCREENSHOT"),
       Tr("SCREENSHOT_TAKEN", "SCREENSHOT", "ANALYZE"),
       Tr("ACTION_DECIDED", "ANALYZE", "ACTION"),
       Tr("ACTION_DONE", "ACTION", "VERIFY"),
       Tr("NEED_MORE", "VERIFY", "ANALYZE"),
       Tr("TASK_COMPLETE", "VERIFY", "COMPLETE"),
       Tr("TASK_COMPLETE", "ANALYZE", "COMPLETE"),
       Tr("RECOVER", "ERROR", "IDLE"),
       Tr("RECOVER", "COMPLETE", "IDLE"),
       Tr("ERROR", "IDLE", "ERROR"),
       Tr("ERROR", "SCREENSHOT", "ERROR"),
       Tr("ERROR", "ANALYZE", "ERROR"),
       Tr("ERROR", "ACTION", "ERROR"),
       Tr("ERROR", "VERIFY", "ERROR") >>

\* the table: the defaults followed by what the caller added
Table == DefaultTransitions \o added

\* Transition.can_execute (transitions are registered without a guard)
can_execute(t) ==
    /\ current = t.from_state
    /\ is_valid_transition(t.from_state, t.to_state)

\* TransitionTable.get: the first registered transition of the event that
\* can execute; NoTransition when there is none
NoTransition == [event |-> None, from_state |-> None, to_state |-> None]

get(event) ==
    LET m == SelectSeq(Table, LAMBDA t : t.event = event /\ can_execute(t))
    IN  IF m = <<>> THEN NoTransition ELSE Head(m)

\* TransitionTable.fire / Transition.execute, on the state object
fire(event, d) ==
    LET t == get(event)
    IN  IF t = NoTransition
        THEN UNCHANGED <<current, previous, data, history>>
        ELSE transition_to(t.to_state, d)

fired(event) == get(event) # NoTransition

\* TransitionTable.add
add(t) ==
    /\ added' = Append(added, t)
    /\ lastCall' = "add"
    /\ ret' = None
    /\ UNCHANGED <<fsmVars, action_queue, max_iterations, current_iteration>>

----------------------------------------------------------------------------
(* fsm/controller.py: the event handlers.  Each handler states the new     *)
(* value of the controller's fields and of lastCall/ret.                   *)

Rejected(op) ==
    /\ lastCall' = op
    /\ ret' = "False"
    /\ UNCHANGED <<fsmVars, ctlVars>>

\* FSMController.start
start(user_request) ==
    IF ~is_idle
    THEN Rejected("start")
    ELSE /\ current_iteration' = 0
         /\ fire("USER_REQUEST", "user_request" :> user_request)
         /\ lastCall' = "start"
         /\ ret' = PyBool(fired("USER_REQUEST"))
         /\ UNCHANGED <<error, added, action_queue, max_iterations>>

\* FSMController.on_screenshot_taken
on_screenshot_taken(screenshot) ==
    IF current # "SCREENSHOT"
    THEN Rejected("on_screenshot_taken")
    ELSE /\ fire("SCREENSHOT_TAKEN",
                 ("screenshot" :> screenshot) @@ ("screenshot_metadata" :> "meta"))
         /\ lastCall' = "on_screenshot_taken"
         /\ ret' = PyBool(fired("SCREENSHOT_TAKEN"))
         /\ UNCHANGED <<error, ctlVars>>

on_action_decided_enqueue_first(action_type) ==
    /\ action_queue' = Append(action_queue, action_type)
    /\ lastCall' = "on_action_decided"
    /\ IF current # "ANALYZE"
       THEN ret' = "False" /\ UNCHANGED fsmVars
       ELSE /\ fire("ACTION_DECIDED", "action_request" :> action_type)
            /\ ret' = PyBool(fired("ACTION_DECIDED"))
            /\ UNCHANGED error
    /\ UNCHANGED <<added, max_iterations, current_iteration>>

\* FSMController.on_action_decided
on_action_decided(action_type) ==
    IF current # "ANALYZE"
    THEN Rejected("on_action_decided")
    ELSE /\ action_queue' = Append(action_queue, action_type)
         /\ fire("ACTION_DECIDED", "action_request" :> action_type)
         /\ lastCall' = "on_action_decided"
         /\ ret' = PyBool(fired("ACTION_DECIDED"))
         /\ UNCHANGED <<error, added, max_iterations, current_iteration>>

\* FSMController.on_action_done
on_action_done(result) ==
    IF current # "ACTION"
    THEN Rejected("on_action_done")
    ELSE /\ fire("ACTION_DONE", "action_result" :> result)
         /\ current_iteration' = IF fired("ACTION_DONE")
                                  THEN current_iteration + 1
                                  ELSE current_iteration
         /\ lastCall' = "on_action_done"
         /\ ret' = PyBool(fired("ACTION_DONE"))
         /\ UNCHANGED <<error, added, action_queue, max_iterations>>

\* body of FSMController.need_more after the call is named
need_more_body(op, reason) ==
    IF current # "VERIFY"
    THEN Rejected(op)
    ELSE /\ fire("NEED_MORE", "reason" :> reason)
         /\ lastCall' = op
         /\ ret' = PyBool(fired("NEED_MORE"))
         /\ UNCHANGED <<error, ctlVars>>

\* body of FSMController.complete after the call is named
complete_body(op, result) ==
    IF current \notin {"VERIFY", "ANALYZE"}
    THEN Rejected(op)
    ELSE /\ fire("TASK_COMPLETE", "final_result" :> result)
         /\ lastCall' = op
         /\ ret' = PyBool(fired("TASK_COMPLETE"))
         /\ UNCHANGED <<error, ctlVars>>

\* FSMController.need_more
need_more(reason) == need_more_body("need_more", reason)

\* FSMController.complete
complete(result) == complete_body("complete", result)

\* the payload text of the forced completion
MaxIterationsMsg(n) == "Max iterations (" \o ToString(n) \o ") reached"

on_verify_result_off_by_one(is_complete, reason) ==
    IF current # "VERIFY"
    THEN Rejected("on_verify_result")
    ELSE IF current_iteration > max_iterations
         THEN complete_body("on_verify_result", MaxIterationsMsg(max_iterations))
         ELSE IF is_complete
              THEN complete_body("on_verify_result", reason)
              ELSE need_more_body("on_verify_result", reason)

\* FSMController.on_verify_result
on_verify_result(is_complete, reason) ==
    IF current # "VERIFY"
    THEN Rejected("on_verify_result")
    ELSE IF current_iteration >= max_iterations
         THEN complete_body("on_verify_result", MaxIterationsMsg(max_iterations))
         ELSE IF is_complete
              THEN complete_body("on_verify_result", reason)
              ELSE need_more_body("on_verify_result", reason)

\* body of FSMController.error after the call is named
error_body(op, error_msg) ==
    /\ fire("ERROR", "error" :> error_msg)
    /\ error' = IF fired("ERROR") THEN error_msg ELSE error
    /\ lastCall' = op
    /\ ret' = PyBool(fired("ERROR"))
    /\ UNCHANGED ctlVars

\* FSMController.error (named fsm_error: error is the state's error slot)
fsm_error(error_msg) == error_body("error", error_msg)

\* FSMController.recover
recover ==
    IF current \notin {"ERROR", "COMPLETE"}
    THEN Rejected("recover")
    ELSE /\ fire("RECOVER", EmptyDict)
         /\ error' = IF fired("RECOVER") THEN None ELSE error
         /\ lastCall' = "recover"
         /\ ret' = PyBool(fired("RECOVER"))
         /\ UNCHANGED ctlVars

reset_clearing_history ==
    /\ current' = "IDLE"
    /\ previous' = None
    /\ data' = EmptyDict
    /\ error' = None
    /\ history' = <<>>
    /\ action_queue' = <<>>
    /\ current_iteration' = 0
    /\ lastCall' = "reset"
    /\ ret' = None
    /\ UNCHANGED <<added, max_iterations>>

\* FSMController.reset with FSMState.reset
reset ==
    /\ current' = "IDLE"
    /\ previous' = None
    /\ data' = EmptyDict
    /\ error' = None
    /\ action_queue' = <<>>
    /\ current_iteration' = 0
    /\ lastCall' = "reset"
    /\ ret' = None
    /\ UNCHANGED <<history, added, max_iterations>>

\* FSMController.get_next_action
get_next_action ==
    /\ action_queue' = IF action_queue # <<>> THEN Tail(action_queue) ELSE action_queue
    /\ lastCall' = "get_next_action"
    /\ ret' = IF action_queue # <<>> THEN Head(action_queue) ELSE None
    /\ UNCHANGED <<fsmVars, added, max_iterations, current_iteration>>

----------------------------------------------------------------------------
(* primitives/executor.py and computer_use/tool_executor.py                *)
(*                                                                         *)
(* A tool input is a dict.  The operating system is an input of each call: *)
(* env tells how the device call, the subprocess or the file operation     *)
(* ends.  An outcome is [raised, result, effects]: the exception that      *)
(* leaves the call (None when it returns), the returned dict, and the      *)
(* operating-system effects performed.                                     *)

\* dict.get(key, default)
DictGet(d, key, default) == IF key \in DOMAIN d THEN d[key] ELSE default

\* truthiness of a string-valued entry (None stands for a missing one)
Truthy(v) == v # None /\ v # ""

Returned(result, effects) == [raised |-> None, result |-> result, effects |-> effects]
Raised(exc, effects) == [raised |-> exc, result |-> EmptyDict, effects |-> effects]

\* ActionType (values of the enum)
ActionType ==
    {"screenshot", "wait", "zoom", "left_click", "right_click", "middle_click",
     "double_click", "triple_click", "mouse_move", "scroll", "left_click_drag",
     "left_mouse_down", "left_mouse_up", "type", "key", "hold_key"}

\* how the operating system answers a call
EnvOutcomes == {"ok", "fail", "timeout", "raise"}

\* ExecutionResult.to_dict
ExecutionResult(action, success, result, err) ==
    ("action" :> action) @@ ("success" :> success) @@ ("result" :> result)
      @@ ("error" :> err)

\* ComputerUseExecutor.execute(action, **params): the body, once the call
\* has bound its arguments
ComputerUseExecutor_execute(action, params, dry_run, env) ==
    IF action \notin ActionType
    THEN Returned(ExecutionResult(action, FALSE, "{}", "Unknown action"), {})
    ELSE IF dry_run
         THEN Returned(ExecutionResult(action, TRUE, "primitive", None), {})
         ELSE IF env = "ok"
              THEN Returned(ExecutionResult(action, TRUE, "primitive", None), {"device"})
              ELSE IF env = "raise"
                   THEN Returned(ExecutionResult(action, FALSE, "{}", "exception"), {})
                   ELSE Returned(ExecutionResult(action, FALSE, "primitive", "device error"),
                                 {"device"})

\* the call self.computer.execute(action, **kwargs) of a function declared
\* execute(self, action, **params): a keyword named like the positional
\* parameter is a TypeError raised by the call itself
ComputerUseExecutor_call(action, kwargs, dry_run, env) ==
    IF "action" \in DOMAIN kwargs
    THEN Raised("TypeError", {})
    ELSE ComputerUseExecutor_execute(action, kwargs, dry_run, env)

\* ToolExecutor._execute_computer
execute_computer(input_data, dry_run, env) ==
    LET action == DictGet(input_data, "action", None)
    IN  IF ~Truthy(action)
        THEN Returned(("success" :> FALSE) @@ ("error" :> "Missing 'action'"), {})
        ELSE ComputerUseExecutor_call(action, input_data, dry_run, env)

\* the deny-list of _execute_bash
dangerous == {"rm -rf /", ":(){ :|:& };:", "mkfs", "dd if="}

\* d in command: a command is a sequence of text chunks
Contains(command, d) == \E k \in 1..Len(command) : command[k] = d

\* ToolExecutor._execute_bash
execute_bash(input_data, dry_run, env) ==
    LET command == DictGet(input_data, "command", <<>>)
        restart == DictGet(input_data, "restart", FALSE)
    IN  IF dry_run
        THEN Returned(("success" :> TRUE) @@ ("output" :> "[DRY_RUN] Would execute"), {})
        ELSE IF command = <<>> /\ ~restart
        THEN Returned(("success" :> FALSE) @@ ("error" :> "Missing 'command'"), {})
        ELSE IF \E d \in dangerous : Contains(command, d)
        THEN Returned(("success" :> FALSE) @@ ("error" :> "Dangerous command blocked"), {})
        ELSE CASE env = "ok" ->
                    Returned(("success" :> TRUE) @@ ("output" :> "stdout")
                               @@ ("error" :> None), {"spawn"})
               [] env = "fail" ->
                    Returned(("success" :> FALSE) @@ ("output" :> "stderr")
                               @@ ("error" :> "stderr"), {"spawn"})
               [] env = "timeout" ->
                    Returned(("success" :> FALSE) @@ ("error" :> "Command timed out (60s)"),
                             {"spawn"})
               [] OTHER ->
                    Returned(("success" :> FALSE) @@ ("error" :> "exception"), {})

\* the commands of the text editor
EditorCommands == {"view", "create", "str_replace", "insert"}

\* _view_file, _create_file, _str_replace, _insert_line
file_operation(command, env) ==
    CASE env = "ok" ->
             Returned(("success" :> TRUE) @@ ("output" :> command),
                      IF command = "view" THEN {"file_read"} ELSE {"file_write"})
      [] env = "fail" /\ command # "create" ->
             Returned(("success" :> FALSE) @@ ("error" :> "not found"), {})
      [] OTHER ->
             Raised("OSError", {})

\* ToolExecutor._execute_text_editor
execute_text_editor(input_data, dry_run, env) ==
    LET command == DictGet(input_data, "command", None)
    IN  IF dry_run
        THEN Returned(("success" :> TRUE) @@ ("output" :> "[DRY_RUN] Would"), {})
        ELSE IF ~Truthy(command)
        THEN Returned(("success" :> FALSE) @@ ("error" :> "Missing 'command'"), {})
        ELSE IF command \in EditorCommands
        THEN LET r == file_operation(command, env)
             IN  IF r.raised # None
                 THEN Returned(("success" :> FALSE) @@ ("error" :> "exception"), r.effects)
                 ELSE r
        ELSE Returned(("success" :> FALSE) @@ ("error" :> "Unknown command"), {})

\* ToolExecutor.execute
execute(tool_name, tool_input, dry_run, env) ==
    IF tool_name = "computer"
    THEN execute_computer(tool_input, dry_run, env)
    ELSE IF tool_name = "bash"
    THEN execute_bash(tool_input, dry_run, env)
    ELSE IF tool_name \in {"text_editor", "str_replace_based_edit_tool"}
    THEN execute_text_editor(tool_input, dry_run, env)
    ELSE Returned(("success" :> FALSE) @@ ("error" :> "Unknown tool"), {})

\* ToolExecutor.screenshot
executor_screenshot(dry_run, env) ==
    execute_computer("action" :> "screenshot", dry_run, env)

----------------------------------------------------------------------------
(* Inputs of the handlers *)

Goals == {"goal"}
Screenshots == {"png"}
ActionTypes == {"computer", "bash"}
Reasons == {"continue"}
ErrorMsgs == {"failure"}

\* transitions a caller may register: legal pairs under another event, and
\* pairs outside VALID_TRANSITIONS
AddChoices ==
    { Tr("ERROR", "COMPLETE", "IDLE"),
      Tr("ERROR", "COMPLETE", "ERROR"),
      Tr("NEED_MORE", "VERIFY", "IDLE") }

\* the agent and the scripted caller are not part of this specification
Inactive == [pc |-> "inactive"]

----------------------------------------------------------------------------
(* Specification Spec: one controller and a caller that invokes any public *)
(* operation in any state with any argument.                               *)

\* FSMController.__init__ ; the bound is an attribute the owner may set
InitController ==
    /\ current = "IDLE"
    /\ previous = None
    /\ data = EmptyDict
    /\ history = <<>>
    /\ error = None
    /\ added = <<>>
    /\ action_queue = <<>>
    /\ current_iteration = 0
    /\ lastCall = None
    /\ ret = None

Init ==
    /\ InitController
    /\ max_iterations \in 1..MaxBound
    /\ caller_pc = "inactive"
    /\ agent = Inactive
    /\ run = Inactive
    /\ exec = Inactive
    /\ messages = Inactive
    /\ screen = Inactive
    /\ suspended = Inactive
    /\ listeners = Inactive

\* the caller stops once MaxHistory records exist
Free == Len(history) < MaxHistory

NoAgent == UNCHANGED <<caller_pc, agent, run, libVars>>

CallStart == Free /\ NoAgent /\ \E g \in Goals : start(g)
CallScreenshotTaken == Free /\ NoAgent /\ \E s \in Screenshots : on_screenshot_taken(s)
CallActionDecided == Free /\ NoAgent /\ \E a \in ActionTypes : on_action_decided(a)
CallActionDone == Free /\ NoAgent /\ on_action_done("results")
CallVerifyResult == Free /\ NoAgent /\ \E c \in BOOLEAN, r \in Reasons : on_verify_result(c, r)
CallNeedMore == Free /\ NoAgent /\ \E r \in Reasons : need_more(r)
CallComplete == Free /\ NoAgent /\ \E r \in Reasons : complete(r)
CallError == Free /\ NoAgent /\ \E m \in ErrorMsgs : fsm_error(m)
CallRecover == Free /\ NoAgent /\ recover
CallReset == NoAgent /\ reset
CallGetNextAction == NoAgent /\ get_next_action
CallAdd == NoAgent /\ \E t \in AddChoices : Len(added) < MaxAdded /\ add(t)

Next ==
    \/ CallStart
    \/ CallScreenshotTaken
    \/ CallActionDecided
    \/ CallActionDone
    \/ CallVerifyResult
    \/ CallNeedMore
    \/ CallComplete
    \/ CallError
    \/ CallRecover
    \/ CallReset
    \/ CallGetNextAction
    \/ CallAdd

Spec == Init /\ [][Next]_vars

----------------------------------------------------------------------------
(* Specification SpecLoop: a controller with bound N and a caller that,    *)
(* after start and on_screenshot_taken, keeps repeating on_action_decided, *)
(* on_action_done, on_verify_result(is_complete=False).                    *)

InitLoop ==
    /\ InitController
    /\ max_iterations \in 1..MaxLoopBound
    /\ caller_pc = "start"
    /\ agent = Inactive
    /\ run = Inactive
    /\ exec = Inactive
    /\ messages = Inactive
    /\ screen = Inactive
    /\ suspended = Inactive
    /\ listeners = Inactive

LoopStart ==
    /\ UNCHANGED <<agent, run, libVars>>
    /\ caller_pc = "start"
    /\ \E g \in Goals : start(g)
    /\ caller_pc' = "screenshot"

LoopScreenshot ==
    /\ UNCHANGED <<agent, run, libVars>>
    /\ caller_pc = "screenshot"
    /\ \E s \in Screenshots : on_screenshot_taken(s)
    /\ caller_pc' = "decide"

LoopDecide ==
    /\ UNCHANGED <<agent, run, libVars>>
    /\ caller_pc = "decide"
    /\ \E a \in ActionTypes : on_action_decided(a)
    /\ caller_pc' = "done"

LoopDone ==
    /\ UNCHANGED <<agent, run, libVars>>
    /\ caller_pc = "done"
    /\ on_action_done("results")
    /\ caller_pc' = "verify"

LoopVerify ==
    /\ UNCHANGED <<agent, run, libVars>>
    /\ caller_pc = "verify"
    /\ \E r \in Reasons : on_verify_result(FALSE, r)
    /\ caller_pc' = "decide"

NextLoop ==
    \/ LoopStart
    \/ LoopScreenshot
    \/ LoopDecide
    \/ LoopDone
    \/ LoopVerify

SpecLoop == InitLoop /\ [][NextLoop]_vars

\* the caller keeps calling: its next call is always eventually made
SpecLoopFair == SpecLoop /\ WF_vars(NextLoop)

----------------------------------------------------------------------------
(* Specification SpecExec: calls of ToolExecutor.execute with every tool   *)
(* name, input, dry_run setting and answer of the operating system.        *)

ComputerInputs ==
    {EmptyDict, "action" :> "", "action" :> "bogus",
     ("action" :> "left_click") @@ ("coordinate" :> <<100, 50>>)}
      \cup {"action" :> a : a \in ActionType}

BashInputs ==
    {EmptyDict, "command" :> <<>>, "command" :> <<"ls">>, "restart" :> TRUE,
     "command" :> <<"rm -rf /">>, "command" :> <<"echo ", ":(){ :|:& };:">>,
     "command" :> <<"sudo ", "mkfs", ".ext4 /dev/sda">>,
     "command" :> <<"dd if=", "/dev/zero">>,
     ("command" :> <<"mkfs">>) @@ ("restart" :> TRUE)}

EditorInputs ==
    {EmptyDict} \cup
    {("command" :> c) @@ ("path" :> "file") : c \in EditorCommands \cup {"undo_edit"}}

EditorNames == {"text_editor", "str_replace_based_edit_tool"}

UnknownNames == {"browser", ""}

InitExec ==
    /\ InitController
    /\ max_iterations = 1
    /\ caller_pc = "inactive"
    /\ agent = Inactive
    /\ run = Inactive
    /\ exec = [pc |-> "idle"]
    /\ messages = Inactive
    /\ screen = Inactive
    /\ suspended = Inactive
    /\ listeners = Inactive

\* the record of one call: its arguments and its outcome
Call(tool_name, tool_input, dry_run, env) ==
    [pc |-> "done", tool_name |-> tool_name, tool_input |-> tool_input,
     dry_run |-> dry_run, env |-> env,
     out |-> execute(tool_name, tool_input, dry_run, env)]

NoRun == UNCHANGED <<fsmVars, ctlVars, obsVars, caller_pc, agent, run,
                     suspended, listeners, messages, screen>>

\* ToolExecutor.__init__ -> ComputerUseExecutor.__init__ -> MouseActions,
\* KeyboardActions, ScreenActions: the dry_run attribute of each object once
\* _init_gui / _init_libs have run (pyautogui, pil: the library imports)
ToolExecutor_init(dry_run, pyautogui, pil) ==
    [dry_run |-> dry_run,
     computer |-> [dry_run |-> dry_run,
                   mouse |-> [dry_run |-> dry_run \/ ~pyautogui],
                   keyboard |-> [dry_run |-> dry_run \/ ~pyautogui],
                   screen |-> [dry_run |-> dry_run \/ ~pyautogui \/ ~pil]]]

\* ToolExecutor(dry_run) on a machine with or without the libraries
ConstructExecutor ==
    /\ NoRun
    /\ \E d \in BOOLEAN, pyautogui \in BOOLEAN, pil \in BOOLEAN :
          exec' = [pc |-> "constructed", requested |-> d,
                   pyautogui |-> pyautogui, pil |-> pil,
                   executor |-> ToolExecutor_init(d, pyautogui, pil)]

ExecComputer ==
    /\ NoRun
    /\ \E i \in ComputerInputs, d \in BOOLEAN, e \in EnvOutcomes :
          exec' = Call("computer", i, d, e)

ExecBash ==
    /\ NoRun
    /\ \E i \in BashInputs, d \in BOOLEAN, e \in EnvOutcomes :
          exec' = Call("bash", i, d, e)

ExecTextEditor ==
    /\ NoRun
    /\ \E n \in EditorNames, i \in EditorInputs, d \in BOOLEAN, e \in EnvOutcomes :
          exec' = Call(n, i, d, e)

ExecUnknownTool ==
    /\ NoRun
    /\ \E n \in UnknownNames, i \in BashInputs, d \in BOOLEAN, e \in EnvOutcomes :
          exec' = Call(n, i, d, e)

NextExec ==
    \/ ConstructExecutor
    \/ ExecComputer
    \/ ExecBash
    \/ ExecTextEditor
    \/ ExecUnknownTool

SpecExec == InitExec /\ [][NextExec]_vars

----------------------------------------------------------------------------
(* computer_use/agent_loop.py: ComputerUseAgent.__init__, run and reset.   *)
(*                                                                         *)
(* run() is cut into steps with at most one controller call each; the      *)
(* except clauses and the return that follows them belong to the step in   *)
(* which the exception is raised.  The remote model and the operating      *)
(* system are inputs.  Of the transcript the model keeps the number of     *)
(* turns and the turns appended last.  The anthropic SDK is installed.     *)

\* FSMController.__init__: self._max_iterations = 20
DefaultMaxIterations == 20

\* budgets given to ComputerUseAgent(max_iterations=...)
AgentIterations ==
    (1..MaxSmallIterations)
      \cup {DefaultMaxIterations, DefaultMaxIterations + MaxExtraIterations}

\* the action requests a model reply may carry
ToolUse(k, name) ==
    [id |-> k, name |-> name,
     input |-> IF name = "computer"
               THEN ("action" :> "left_click") @@ ("coordinate" :> <<100, 50>>)
               ELSE "command" :> <<"ls">>]

ToolNamesOfReply == {"computer", "bash"}

Replies ==
    UNION { { [k \in 1..n |-> ToolUse(k, names[k])] :
                names \in [1..n -> ToolNamesOfReply] } : n \in 1..MaxTools }

\* AgentResult(success=False, started_at=now)
NewResult ==
    [success |-> FALSE, response |-> "", iterations |-> 0, tool_calls |-> 0,
     error |-> None, completed_at |-> FALSE, fsm_history |-> <<>>]

\* no activation of run()
NewRun ==
    [pc |-> "idle", initial_screenshot |-> FALSE, i |-> 0,
     tool_uses |-> <<>>, j |-> 0, tool_results |-> <<>>, appended |-> <<>>,
     api_calls |-> 0, dispatched |-> 0, multi |-> 0, exit |-> None,
     ops |-> <<>>, result |-> NewResult]

\* _format_tool_result, for the results ToolExecutor.execute returns
format_tool_result(tool_name, result) ==
    IF tool_name = "computer" /\ DictGet(result, "action", None) = "screenshot"
       /\ DictGet(result, "success", FALSE) /\ Truthy(DictGet(result, "base64_data", None))
    THEN "image"
    ELSE IF DictGet(result, "success", FALSE)
         THEN DictGet(result, "output", "Action completed")
         ELSE "Error: " \o DictGet(result, "error", "Unknown error")

Return_without_history(r, exit, h) ==
    [r EXCEPT !.pc = "returned", !.exit = exit, !.result.completed_at = TRUE]

\* lines 389-391: completed_at, fsm_history, return
Return(r, exit, h) ==
    [r EXCEPT !.pc = "returned", !.exit = exit,
              !.result.completed_at = TRUE, !.result.fsm_history = h]

NoController == UNCHANGED <<fsmVars, ctlVars, obsVars>>

\* run() may be called: on a new agent, or again after it returned (the
\* second call is explored for the small budgets and short histories)
MayRun ==
    \/ run.pc = "idle"
    \/ /\ run.pc = "returned"
       /\ Len(history) <= MaxRerunHistory
       /\ agent.max_iterations <= MaxSmallIterations

\* lines 236-244: no client and not dry_run
RunEarlyReturn ==
    /\ MayRun
    /\ ~agent.has_client /\ ~agent.dry_run
    /\ run' = [NewRun EXCEPT
                 !.pc = "returned", !.exit = "no_client",
                 !.result.error = "Anthropic client not initialized",
                 !.result.completed_at = TRUE]
    /\ NoController
    /\ UNCHANGED <<agent, caller_pc, libVars>>

\* lines 246-249: fsm.start(user_request); self._messages = []
RunStart ==
    /\ MayRun
    /\ agent.has_client \/ agent.dry_run
    /\ \E g \in Goals : start(g)
    /\ \E shot \in BOOLEAN :
         run' = [NewRun EXCEPT
                   !.pc = "screenshot", !.initial_screenshot = shot]
    /\ agent' = [agent EXCEPT !.n_messages = 0, !.roles = <<>>]
    /\ UNCHANGED <<caller_pc, libVars>>

\* lines 267-270 raise: executor.screenshot() lets the TypeError of
\* _execute_computer through, and 'except Exception' ends the run
RunScreenshotRaises ==
    /\ run.pc = "screenshot"
    /\ run.initial_screenshot /\ ~agent.scaling
    /\ \E e \in {"ok", "fail"} :
         /\ executor_screenshot(agent.dry_run, e).raised # None
         /\ error_body("error", executor_screenshot(agent.dry_run, e).raised)
         /\ run' = Return([run EXCEPT
                      !.result.error = executor_screenshot(agent.dry_run, e).raised],
                      "exception", history')
    /\ UNCHANGED <<agent, caller_pc, libVars>>

\* what the capture of lines 253-270 yields: the image data (None or ""
\* when there is none) and the Scaling Info
Captures ==
    IF ~run.initial_screenshot
    THEN {[data |-> None, scaling_info |-> agent.scaling_info]}
    ELSE IF agent.scaling
    THEN IF agent.dry_run
         THEN {[data |-> "", scaling_info |-> "enabled"]}
         ELSE {[data |-> "png", scaling_info |-> "enabled"],
               [data |-> None, scaling_info |-> "disabled"]}
    ELSE { [data |-> DictGet(executor_screenshot(agent.dry_run, e).result,
                             "base64_data", None),
            scaling_info |-> "disabled"] :
           e \in {e2 \in {"ok", "fail"} :
                    executor_screenshot(agent.dry_run, e2).raised = None} }

\* lines 251-293: capture, first user turn, fsm.on_screenshot_taken
RunScreenshotTaken ==
    /\ run.pc = "screenshot"
    /\ \E c \in Captures :
         /\ on_screenshot_taken(IF Truthy(c.data) THEN c.data ELSE "")
         /\ agent' = [agent EXCEPT !.scaling_info = c.scaling_info,
                                   !.n_messages = agent.n_messages + 1,
                                   !.roles = Append(agent.roles, "user")]
         /\ run' = [run EXCEPT
                      !.pc = "loop", !.i = 0, !.ops = <<"append">>,
                      !.appended = << [role |-> "user",
                                       content |-> IF Truthy(c.data)
                                                   THEN <<"text", "image">>
                                                   ELSE <<"text">>] >>]
    /\ UNCHANGED <<caller_pc, libVars>>

InLoop_one_more == run.pc = "loop" /\ run.i <= agent.max_iterations

\* line 296: for i in range(self.max_iterations)
InLoop == run.pc = "loop" /\ run.i < agent.max_iterations

\* lines 299-305: dry run
RunDryRunBreak ==
    /\ InLoop
    /\ agent.dry_run
    /\ run' = Return([run EXCEPT !.result.iterations = run.i + 1,
                                 !.result.success = TRUE,
                                 !.result.response = "[DRY_RUN] Completed"],
                     "dry_run", history)
    /\ NoController
    /\ UNCHANGED <<agent, caller_pc, libVars>>

Called_cache_first(r) ==
    [r EXCEPT !.result.iterations = r.i + 1, !.api_calls = r.api_calls + 1,
              !.ops = <<"apply_cache_control", "truncate_images", "create">>]

\* lines 297 and 307-311, with _call_api 456-472: the pass is counted,
\* then _truncate_images, _apply_cache_control and messages.create run;
\* ops lists the operations on the transcript from the policies of the
\* last model call on
Called(r) ==
    [r EXCEPT !.result.iterations = r.i + 1, !.api_calls = r.api_calls + 1,
              !.ops = <<"truncate_images", "apply_cache_control", "create">>]

\* lines 311 and 379-384: _call_api re-raises RateLimitError and
\* AuthenticationError
RunApiRaises ==
    /\ InLoop
    /\ ~agent.dry_run
    /\ \E x \in {"rate_limit", "auth"} :
         /\ error_body("error", IF x = "rate_limit" THEN "Rate limit: e" ELSE "Auth error: e")
         /\ run' = Return([Called(run) EXCEPT
                      !.result.error = IF x = "rate_limit"
                                       THEN "Rate limit exceeded. Please wait and retry."
                                       ELSE "Invalid API key"],
                      x, history')
    /\ UNCHANGED <<agent, caller_pc, libVars>>

\* lines 311-315: _call_api returned None (APIError or any other exception)
RunApiFailed ==
    /\ InLoop
    /\ ~agent.dry_run
    /\ error_body("error", "API call failed")
    /\ run' = Return([Called(run) EXCEPT !.result.error = "API call failed"],
                     "api_failed", history')
    /\ UNCHANGED <<agent, caller_pc, libVars>>

\* lines 321 and 385-387: a reply whose content cannot be read
RunMalformedReply ==
    /\ InLoop
    /\ ~agent.dry_run
    /\ error_body("error", "TypeError")
    /\ run' = Return([Called(run) EXCEPT !.result.error = "TypeError"],
                     "exception", history')
    /\ UNCHANGED <<agent, caller_pc, libVars>>

\* lines 323-328: the reply carries no action request
RunFinalAnswer ==
    /\ InLoop
    /\ ~agent.dry_run
    /\ complete_body("complete", "answer")
    /\ run' = Return([Called(run) EXCEPT !.result.success = TRUE,
                                         !.result.response = "answer"],
                     "final_answer", history')
    /\ UNCHANGED <<agent, caller_pc, libVars>>

\* lines 311-321: the reply carries action requests
RunToolsRequested ==
    /\ InLoop
    /\ ~agent.dry_run
    /\ \E reply \in Replies :
         /\ Len(reply) > 1 => run.multi < MaxMultiReplies
         /\ run' = [Called(run) EXCEPT
                      !.pc = "decide", !.tool_uses = reply, !.j = 1,
                      !.tool_results = <<>>,
                      !.multi = IF Len(reply) > 1 THEN run.multi + 1 ELSE run.multi]
    /\ NoController
    /\ UNCHANGED <<agent, caller_pc, libVars>>

\* lines 331-335: fsm.on_action_decided for each request
RunActionDecided ==
    /\ run.pc = "decide"
    /\ on_action_decided(run.tool_uses[run.j].name)
    /\ run' = IF run.j < Len(run.tool_uses)
              THEN [run EXCEPT !.j = run.j + 1]
              ELSE [run EXCEPT !.pc = "execute", !.j = 1]
    /\ UNCHANGED <<agent, caller_pc, libVars>>

ToolResultBlock_of_next_id(tool_use, out) ==
    [type |-> "tool_result", tool_use_id |-> tool_use.id + 1,
     content |-> format_tool_result(tool_use.name, out.result)]

\* the tool-result block of _execute_tool
ToolResultBlock(tool_use, out) ==
    [type |-> "tool_result", tool_use_id |-> tool_use.id,
     content |-> format_tool_result(tool_use.name, out.result)]

\* lines 339-356: _execute_tool returned
RunToolExecuted ==
    /\ run.pc = "execute"
    /\ \E e \in {"ok", "fail"} :
         LET tool_use == run.tool_uses[run.j]
             out == execute(tool_use.name, tool_use.input, agent.dry_run, e)
         IN  /\ out.raised = None
             /\ run' = [run EXCEPT
                          !.tool_results = Append(run.tool_results,
                                                  ToolResultBlock(tool_use, out)),
                          !.result.tool_calls = run.result.tool_calls + 1,
                          !.dispatched = run.dispatched + 1,
                          !.j = run.j + 1,
                          !.pc = IF run.j < Len(run.tool_uses) THEN "execute" ELSE "done"]
    /\ NoController
    /\ UNCHANGED <<agent, caller_pc, libVars>>

\* lines 346 and 385-387: ToolExecutor.execute raised
RunToolRaises ==
    /\ run.pc = "execute"
    /\ \E e \in {"ok", "fail"} :
         LET tool_use == run.tool_uses[run.j]
             out == execute(tool_use.name, tool_use.input, agent.dry_run, e)
         IN  /\ out.raised # None
             /\ error_body("error", out.raised)
             /\ run' = Return([run EXCEPT !.result.error = out.raised,
                                          !.dispatched = run.dispatched + 1],
                              "exception", history')
    /\ UNCHANGED <<agent, caller_pc, libVars>>

TurnsOfPass_results_first(tool_uses, tool_results) ==
    << [role |-> "user", content |-> tool_results],
       [role |-> "assistant", content |-> tool_uses] >>

\* lines 361-368: the assistant turn with the reply, then the user turn
\* with the tool results
TurnsOfPass(tool_uses, tool_results) ==
    << [role |-> "assistant", content |-> tool_uses],
       [role |-> "user", content |-> tool_results] >>

\* lines 358-369: fsm.on_action_done, then the assistant and user turns
RunActionDone ==
    /\ run.pc = "done"
    /\ on_action_done("tool_results")
    /\ LET turns == TurnsOfPass(run.tool_uses, run.tool_results)
       IN  /\ agent' = [agent EXCEPT
                          !.n_messages = agent.n_messages + 2,
                          !.roles = agent.roles \o <<turns[1].role, turns[2].role>>]
           /\ run' = [run EXCEPT
                        !.pc = "verify",
                        !.ops = run.ops \o <<"append", "append">>,
                        !.appended = turns]
    /\ UNCHANGED <<caller_pc, libVars>>

\* line 372: fsm.on_verify_result(is_complete=False, reason="continue")
RunVerifyResult ==
    /\ run.pc = "verify"
    /\ on_verify_result(FALSE, "continue")
    /\ run' = [run EXCEPT !.pc = "loop", !.i = run.i + 1]
    /\ UNCHANGED <<agent, caller_pc, libVars>>

\* lines 374-377: the for loop ran out (else branch)
RunExhausted ==
    /\ run.pc = "loop"
    /\ run.i = agent.max_iterations
    /\ error_body("error", MaxIterationsMsg(agent.max_iterations))
    /\ run' = Return([run EXCEPT
                        !.result.error = MaxIterationsMsg(agent.max_iterations)],
                     "exhausted", history')
    /\ UNCHANGED <<agent, caller_pc, libVars>>

\* ComputerUseAgent.reset, between two runs; the returned result is dropped
AgentReset ==
    /\ MayRun
    /\ run.pc = "returned"
    /\ current # "IDLE"
    /\ reset
    /\ agent' = [agent EXCEPT !.n_messages = 0, !.roles = <<>>,
                              !.scaling_info = None]
    /\ run' = NewRun
    /\ UNCHANGED <<caller_pc, libVars>>

\* ComputerUseAgent.__init__
InitRun ==
    /\ InitController
    /\ max_iterations = DefaultMaxIterations
    /\ caller_pc = "inactive"
    /\ exec = Inactive
    /\ messages = Inactive
    /\ screen = Inactive
    /\ suspended = Inactive
    /\ listeners = Inactive
    /\ \E dry \in BOOLEAN, client \in BOOLEAN, scaling \in BOOLEAN,
          m \in AgentIterations :
         /\ dry => ~client
         /\ agent = [dry_run |-> dry, has_client |-> client, scaling |-> scaling,
                     max_iterations |-> m, scaling_info |-> None, n_messages |-> 0,
                     roles |-> <<>>]
    /\ run = NewRun

NextRun ==
    \/ RunEarlyReturn
    \/ RunStart
    \/ RunScreenshotRaises
    \/ RunScreenshotTaken
    \/ RunDryRunBreak
    \/ RunApiRaises
    \/ RunApiFailed
    \/ RunMalformedReply
    \/ RunFinalAnswer
    \/ RunToolsRequested
    \/ RunActionDecided
    \/ RunToolExecuted
    \/ RunToolRaises
    \/ RunActionDone
    \/ RunVerifyResult
    \/ RunExhausted
    \/ AgentReset

SpecRun == InitRun /\ [][NextRun]_vars

----------------------------------------------------------------------------
(* Two activations of run() on one agent object, interleaved by the event  *)
(* loop at the awaits that suspend: asyncio.sleep(screenshot_delay) before *)
(* the first capture and asyncio.sleep(0.1) of a dry run.  The activation  *)
(* that holds the loop is `run`; the other one waits in `suspended`.       *)

\* self._messages, self._scaling_info and self.fsm of the agent object
Shared ==
    [n_messages |-> agent.n_messages, scaling_info |-> agent.scaling_info,
     current |-> current, data |-> data, history |-> history]

\* lines 254-255 and 302: the activation is in asyncio.sleep
AtSleep ==
    \/ run.pc = "screenshot" /\ run.initial_screenshot
    \/ InLoop /\ agent.dry_run

\* the event loop leaves the sleeping activation for another task, which
\* may call run() on the same agent
RunSuspend ==
    /\ AtSleep
    /\ suspended.pc = "inactive"
    /\ suspended' = [pc |-> "parked", frame |-> run, shared |-> Shared]
    /\ run' = NewRun
    /\ NoController
    /\ UNCHANGED <<agent, caller_pc, listeners, exec, messages, screen>>

\* the event loop returns to the waiting activation once the other task
\* sleeps, has returned, or never called run()
RunResume ==
    /\ suspended.pc = "parked"
    /\ AtSleep \/ run.pc \in {"returned", "idle"}
    /\ run' = suspended.frame
    /\ suspended' = IF AtSleep
                    THEN [pc |-> "parked", frame |-> run, shared |-> Shared]
                    ELSE [pc |-> "finished"]
    /\ NoController
    /\ UNCHANGED <<agent, caller_pc, listeners, exec, messages, screen>>

NextConcurrent ==
    \/ RunEarlyReturn
    \/ RunStart
    \/ RunScreenshotRaises
    \/ RunScreenshotTaken
    \/ RunDryRunBreak
    \/ RunApiRaises
    \/ RunApiFailed
    \/ RunMalformedReply
    \/ RunFinalAnswer
    \/ RunToolsRequested
    \/ RunActionDecided
    \/ RunToolExecuted
    \/ RunToolRaises
    \/ RunActionDone
    \/ RunVerifyResult
    \/ RunExhausted
    \/ AgentReset
    \/ RunSuspend
    \/ RunResume

\* the agents with a small budget
InitConcurrent == InitRun /\ agent.max_iterations <= MaxSmallIterations

SpecConcurrent == InitConcurrent /\ [][NextConcurrent]_vars

----------------------------------------------------------------------------
(* computer_use/agent_loop.py: ComputerUseAgent._truncate_images, applied  *)
(* to a transcript.  A turn is the list of its content blocks; a block is  *)
(* [type, text, images], images being the number of image blocks carried   *)
(* inside a tool-result block.                                             *)

\* the block that replaces an image
Placeholder ==
    [type |-> "text", text |-> "[Image truncated for token efficiency]", images |-> 0]

\* the blocks of a turn: a screen capture, the request text, a tool-result
\* with text, a tool-result carrying the image of _format_tool_result
Blocks ==
    { [type |-> "image", text |-> "", images |-> 0],
      [type |-> "text", text |-> "goal", images |-> 0],
      [type |-> "tool_result", text |-> "Action completed", images |-> 0],
      [type |-> "tool_result", text |-> "", images |-> 1] }

\* lines 408-421: the inner loop over the blocks of one turn
RECURSIVE truncate_content(_, _, _)
truncate_content(content, image_count, max_recent_images) ==
    IF content = <<>>
    THEN [content |-> <<>>, image_count |-> image_count]
    ELSE LET item == Head(content)
             keep == item.type = "image" /\ image_count < max_recent_images
             rest == truncate_content(Tail(content),
                                      IF keep THEN image_count + 1 ELSE image_count,
                                      max_recent_images)
         IN  [content |-> <<IF item.type = "image" /\ ~keep
                            THEN Placeholder ELSE item>> \o rest.content,
              image_count |-> rest.image_count]

\* lines 402-423: the loop over reversed(self._messages)
RECURSIVE truncate_messages(_, _, _)
truncate_messages(msgs, image_count, max_recent_images) ==
    IF msgs = <<>>
    THEN <<>>
    ELSE LET t == truncate_content(msgs[Len(msgs)], image_count, max_recent_images)
         IN  Append(truncate_messages(SubSeq(msgs, 1, Len(msgs) - 1),
                                      t.image_count, max_recent_images),
                    t.content)

\* _truncate_images
truncate_images(msgs, max_recent_images) ==
    IF max_recent_images <= 0
    THEN msgs
    ELSE truncate_messages(msgs, 0, max_recent_images)

\* turns of 1..MaxBlocks blocks
Turns == UNION { [1..n -> Blocks] : n \in 1..MaxBlocks }

\* transcripts of at most MaxTurns turns
Transcripts == UNION { [1..n -> Turns] : n \in 0..MaxTurns }

\* an agent with some max_recent_images and some transcript
InitImages ==
    /\ InitController
    /\ max_iterations = 1
    /\ caller_pc = "inactive"
    /\ agent = Inactive
    /\ run = Inactive
    /\ exec = Inactive
    /\ screen = Inactive
    /\ suspended = Inactive
    /\ listeners = Inactive
    /\ \E m \in 0..MaxImages, t \in Transcripts :
         messages = [pc |-> "built", max_recent_images |-> m, list |-> t, before |-> t]

\* the call self._truncate_images()
TruncateImages ==
    /\ messages.pc = "built"
    /\ messages' = [messages EXCEPT
                      !.pc = "truncated",
                      !.list = truncate_images(messages.list, messages.max_recent_images)]
    /\ UNCHANGED <<fsmVars, ctlVars, obsVars, caller_pc, agent, run,
                   suspended, listeners, exec, screen>>

NextImages == TruncateImages

SpecImages == InitImages /\ [][NextImages]_vars

----------------------------------------------------------------------------
(* computer_use/agent_loop.py: ComputerUseAgent._apply_cache_control.  The  *)
(* content of a turn is [kind, text, blocks]: a bare string (kind "str",   *)
(* its text) or a list of blocks (kind "list").  A block is [dict, text,   *)
(* cache_control]: dict tells a Python dict from a block object of the     *)
(* model's reply (response.content, appended as the assistant turn),       *)
(* cache_control whether the dict has the "cache_control" key.             *)

cache_turns == 3

\* {"type": "text", "text": content, "cache_control": {"type": "ephemeral"}}
TextBlock(text, cache_control) ==
    [dict |-> TRUE, text |-> text, cache_control |-> cache_control]

\* lines 440-452: the content of one of the most recent turns
cache_content(content) ==
    IF content.kind = "list" /\ content.blocks # <<>>
    THEN LET n == Len(content.blocks)
             last_item == content.blocks[n]
         IN  IF last_item.dict /\ ~last_item.cache_control
             THEN [content EXCEPT !.blocks[n].cache_control = TRUE]
             ELSE content
    ELSE IF content.kind = "str"
         THEN [kind |-> "list", text |-> "",
               blocks |-> << TextBlock(content.text, TRUE) >>]
         ELSE content

\* lines 433-454: the reversed walk stops after cache_turns turns
apply_cache_control(msgs) ==
    [k \in 1..Len(msgs) |->
        IF Len(msgs) - k < cache_turns
        THEN [msgs[k] EXCEPT !.content = cache_content(msgs[k].content)]
        ELSE msgs[k]]

\* blocks of a transcript: dicts built by run() (marked by an earlier call
\* or not) and the block objects of a reply
CacheBlocks ==
    { TextBlock("", FALSE), TextBlock("", TRUE),
      [dict |-> FALSE, text |-> "", cache_control |-> FALSE] }

CacheContents ==
    { [kind |-> "str", text |-> "goal", blocks |-> <<>>] }
      \cup { [kind |-> "list", text |-> "", blocks |-> b] :
               b \in UNION { [1..n -> CacheBlocks] : n \in 0..MaxBlocks } }

CacheTranscripts ==
    UNION { [1..n -> { [content |-> c] : c \in CacheContents }] :
              n \in 0..MaxCacheTurns }

\* an agent with some transcript
InitCache ==
    /\ InitController
    /\ max_iterations = 1
    /\ caller_pc = "inactive"
    /\ agent = Inactive
    /\ run = Inactive
    /\ exec = Inactive
    /\ screen = Inactive
    /\ suspended = Inactive
    /\ listeners = Inactive
    /\ \E t \in CacheTranscripts :
         messages = [pc |-> "built", list |-> t, before |-> t]

\* the call self._apply_cache_control() of _call_api
ApplyCacheControl ==
    /\ messages.pc \in {"built", "applied"}
    /\ messages' = [messages EXCEPT
                      !.pc = "applied",
                      !.before = messages.list,
                      !.list = apply_cache_control(messages.list)]
    /\ UNCHANGED <<fsmVars, ctlVars, obsVars, caller_pc, agent, run,
                   suspended, listeners, exec, screen>>

\* run(), lines 361-369: a turn is appended after the model call
AppendTurn ==
    /\ messages.pc = "applied"
    /\ Len(messages.list) < MaxCacheTurns
    /\ \E c \in CacheContents :
         LET list == Append(messages.list, [content |-> c])
         IN  messages' = [pc |-> "built", list |-> list, before |-> list]
    /\ UNCHANGED <<fsmVars, ctlVars, obsVars, caller_pc, agent, run,
                   suspended, listeners, exec, screen>>

NextCache ==
    \/ ApplyCacheControl
    \/ AppendTurn

SpecCache == InitCache /\ [][NextCache]_vars

----------------------------------------------------------------------------
(* primitives/screen.py: ScalingTarget, ScalingInfo and screenshot_scaled; *)
(* computer_use/agent_loop.py: the coordinate conversion of _execute_tool. *)
(*                                                                         *)
(* A float scale factor W / w is kept as the fraction [num |-> W,          *)
(* den |-> w]; int(x * scale) is then (x * W) \div w for x >= 0.  For the   *)
(* screens and coordinates below the floats of the source give the same    *)
(* integers.                                                               *)

\* ScalingTarget: the value of a member
ScalingTarget(name) ==
    CASE name = "XGA"  -> <<1024, 768>>
      [] name = "WXGA" -> <<1280, 800>>

\* ScalingInfo(enabled, original_*, scaled_*, scale_x, scale_y)
ScalingInfo(enabled, ow, oh, sw, sh, scale_x, scale_y) ==
    [enabled |-> enabled, original_width |-> ow, original_height |-> oh,
     scaled_width |-> sw, scaled_height |-> sh,
     scale_x |-> scale_x, scale_y |-> scale_y]

\* ScalingInfo(enabled=False): the defaults of the dataclass
DisabledScalingInfo ==
    ScalingInfo(FALSE, 0, 0, 0, 0, [num |-> 1, den |-> 1], [num |-> 1, den |-> 1])

\* ScalingInfo.to_original_coords
to_original_coords(info, scaled_x, scaled_y) ==
    IF ~info.enabled
    THEN <<scaled_x, scaled_y>>
    ELSE << (scaled_x * info.scale_x.num) \div info.scale_x.den,
            (scaled_y * info.scale_y.num) \div info.scale_y.den >>

\* ScalingInfo.to_scaled_coords
to_scaled_coords(info, original_x, original_y) ==
    IF ~info.enabled
    THEN <<original_x, original_y>>
    ELSE << (original_x * info.scale_x.den) \div info.scale_x.num,
            (original_y * info.scale_y.den) \div info.scale_y.num >>

\* ScreenActions.get_screen_size in dry run
DryRunScreenSize == <<1920, 1080>>

\* ScreenActions.screenshot_scaled(target) on a w x h screen: the Screen
\* Action's success and the Scaling Info
screenshot_scaled(target, dry_run, w, h, env) ==
    IF target = "NONE"
    THEN [success |-> ~dry_run => env = "ok", info |-> DisabledScalingInfo]
    ELSE LET tw == ScalingTarget(target)[1]
             th == ScalingTarget(target)[2]
         IN  IF dry_run
             THEN [success |-> TRUE,
                   info |-> ScalingInfo(TRUE, DryRunScreenSize[1], DryRunScreenSize[2],
                                        tw, th,
                                        [num |-> DryRunScreenSize[1], den |-> tw],
                                        [num |-> DryRunScreenSize[2], den |-> th])]
             ELSE LET by_width == tw * h <= th * w
                      new_width == IF by_width THEN tw ELSE (w * th) \div h
                      new_height == IF by_width THEN (h * tw) \div w ELSE th
                  IN  IF env # "ok" \/ new_width = 0 \/ new_height = 0
                      THEN [success |-> FALSE, info |-> DisabledScalingInfo]
                      ELSE [success |-> TRUE,
                            info |-> ScalingInfo(TRUE, w, h, new_width, new_height,
                                                 [num |-> w, den |-> new_width],
                                                 [num |-> h, den |-> new_height])]

\* _execute_tool, lines 518-539: the input handed to ToolExecutor.execute
scaled_tool_input(tool_name, tool_input, info) ==
    IF tool_name = "computer" /\ info.enabled /\ "coordinate" \in DOMAIN tool_input
       /\ Len(tool_input["coordinate"]) = 2
    THEN [k \in DOMAIN tool_input |->
            IF k = "coordinate"
            THEN to_original_coords(info, tool_input[k][1], tool_input[k][2])
            ELSE tool_input[k]]
    ELSE tool_input

\* screens captured
ScreenSizes == {<<1920, 1080>>, <<1366, 768>>, <<800, 600>>, <<1000, 3000>>}

\* coordinates the model replies with
Coordinates == (0..MaxCoord) \X (0..MaxCoord)

\* device requests that carry coordinates, and one that carries none
DeviceInputs ==
    { ("action" :> "left_click") @@ ("coordinate" :> c) : c \in Coordinates }
    \cup { ("action" :> "scroll") @@ ("coordinate" :> c) @@ ("delta_y" :> 3) :
             c \in Coordinates }
    \cup { ("action" :> "left_click_drag") @@ ("start_coordinate" :> c)
             @@ ("end_coordinate" :> <<c[2], c[1]>>) : c \in Coordinates }
    \cup { ("action" :> "type") @@ ("text" :> "abc") }

InitScreen ==
    /\ InitController
    /\ max_iterations = 1
    /\ caller_pc = "inactive"
    /\ agent = Inactive
    /\ run = Inactive
    /\ exec = Inactive
    /\ messages = Inactive
    /\ screen = [pc |-> "idle"]
    /\ suspended = Inactive
    /\ listeners = Inactive

NoScreenRun == UNCHANGED <<fsmVars, ctlVars, obsVars, caller_pc, agent, run,
                           suspended, listeners, exec, messages>>

\* agent_loop.py lines 258-264: screen.screenshot_scaled(target=...)
ScreenshotScaled ==
    /\ screen.pc = "idle"
    /\ \E target \in {"XGA", "WXGA", "NONE"}, dry_run \in BOOLEAN,
          size \in ScreenSizes, env \in {"ok", "fail"} :
         screen' = [pc |-> "captured", target |-> target, dry_run |-> dry_run,
                    size |-> IF dry_run THEN DryRunScreenSize ELSE size,
                    capture |-> screenshot_scaled(target, dry_run, size[1], size[2], env)]
    /\ NoScreenRun

\* both conversions of a coordinate with the Scaling Info of the capture
ConvertCoordinates ==
    /\ screen.pc = "captured"
    /\ \E c \in Coordinates :
         screen' = [pc |-> "converted", target |-> screen.target,
                    dry_run |-> screen.dry_run, size |-> screen.size,
                    capture |-> screen.capture, point |-> c,
                    original |-> to_original_coords(screen.capture.info, c[1], c[2]),
                    scaled |-> to_scaled_coords(screen.capture.info, c[1], c[2])]
    /\ NoScreenRun

\* the input dict of the reply's tool_use block once _execute_tool has run:
\* _extract_tool_uses keeps a reference to block.input (line 496), and line
\* 531 assigns tool_input["coordinate"] in that same dict
block_input_after(tool_name, tool_input, info) ==
    scaled_tool_input(tool_name, tool_input, info)

\* _execute_tool for a device request, up to the call of the executor;
\* tool_input is the request as the model issued it, block_input the
\* request as response.content holds it afterwards
DispatchDeviceRequest ==
    /\ screen.pc = "captured"
    /\ \E i \in DeviceInputs :
         screen' = [pc |-> "dispatched", target |-> screen.target,
                    dry_run |-> screen.dry_run, size |-> screen.size,
                    capture |-> screen.capture, tool_input |-> i,
                    sent |-> scaled_tool_input("computer", i, screen.capture.info),
                    block_input |-> block_input_after("computer", i,
                                                      screen.capture.info)]
    /\ NoScreenRun

\* the configured display_width x display_height
DisplaySizes == {<<1920, 1080>>, <<800, 600>>}

tools_of_any_info(has_info, info, display_width, display_height) ==
    IF has_info
    THEN <<info.scaled_width, info.scaled_height>>
    ELSE <<display_width, display_height>>

\* ComputerUseAgent.tools: display_width_px and display_height_px of the
\* device-action schema (has_info: self._scaling_info is not None)
tools(has_info, info, display_width, display_height) ==
    IF has_info /\ info.enabled
    THEN <<info.scaled_width, info.scaled_height>>
    ELSE <<display_width, display_height>>

\* _call_api with tools=self.tools, then _execute_tool for the device
\* request of the reply; without an initial capture there is no Scaling Info
ModelCall ==
    /\ screen.pc \in {"idle", "captured"}
    /\ \E display \in DisplaySizes, i \in DeviceInputs :
         LET has_info == screen.pc = "captured"
             info == IF has_info THEN screen.capture.info ELSE DisabledScalingInfo
         IN  screen' = [pc |-> "called", has_info |-> has_info, info |-> info,
                        display |-> display,
                        tools |-> tools(has_info, info, display[1], display[2]),
                        tool_input |-> i,
                        sent |-> IF has_info
                                 THEN scaled_tool_input("computer", i, info)
                                 ELSE i]
    /\ NoScreenRun

NextScreen ==
    \/ ScreenshotScaled
    \/ ConvertCoordinates
    \/ DispatchDeviceRequest
    \/ ModelCall

SpecScreen == InitScreen /\ [][NextScreen]_vars

----------------------------------------------------------------------------
(* Properties of the controller *)

HandlerNames == {"start", "on_screenshot_taken", "on_action_decided",
                 "on_action_done", "on_verify_result", "need_more",
                 "complete", "error", "recover"}

\* the events a handler fires
EventsOf(op) ==
    CASE op = "start"               -> {"USER_REQUEST"}
      [] op = "on_screenshot_taken" -> {"SCREENSHOT_TAKEN"}
      [] op = "on_action_decided"   -> {"ACTION_DECIDED"}
      [] op = "on_action_done"      -> {"ACTION_DONE"}
      [] op = "on_verify_result"    -> {"NEED_MORE", "TASK_COMPLETE"}
      [] op = "need_more"           -> {"NEED_MORE"}
      [] op = "complete"            -> {"TASK_COMPLETE"}
      [] op = "error"               -> {"ERROR"}
      [] op = "recover"             -> {"RECOVER"}
      [] OTHER                      -> {}

\* the event has, in the controller's table, a transition out of s to an
\* allowed target of s
LegalIn(e, s) ==
    \E k \in 1..Len(Table) :
        /\ Table[k].event = e
        /\ Table[k].from_state = s
        /\ Table[k].to_state \in VALID_TRANSITIONS(s)

LegalCall(op, s) == \E e \in EventsOf(op) : LegalIn(e, s)

\* C1: a handler call whose event is not legal in the current state
\* returns False and leaves the current state, the previous pointer, the
\* payload, the error string, the iteration counter, the pending-action
\* queue and the history unchanged.
C1_RejectedCallChangesNothing ==
    [][ (lastCall' \in HandlerNames /\ ~LegalCall(lastCall', current))
        => /\ ret' = "False"
           /\ UNCHANGED <<current, previous, data, error, current_iteration,
                          action_queue, history>> ]_vars

\* a second on_action_decided, made while the controller is already in
\* Action, was rejected
C1_Witness ==
    /\ lastCall = "on_action_decided"
    /\ ret = "False"
    /\ current = "ACTION"
    /\ Len(action_queue) = 1

\* the transition table of the specification
LegalPairs ==
    { <<"IDLE", "SCREENSHOT">>, <<"SCREENSHOT", "ANALYZE">>,
      <<"ANALYZE", "ACTION">>, <<"ANALYZE", "COMPLETE">>,
      <<"ACTION", "VERIFY">>, <<"VERIFY", "ANALYZE">>,
      <<"VERIFY", "COMPLETE">>,
      <<"IDLE", "ERROR">>, <<"SCREENSHOT", "ERROR">>, <<"ANALYZE", "ERROR">>,
      <<"ACTION", "ERROR">>, <<"VERIFY", "ERROR">>,
      <<"ERROR", "IDLE">>, <<"COMPLETE", "IDLE">> }

RECURSIVE ActionVerifyCount(_)
ActionVerifyCount(h) ==
    IF h = <<>> THEN 0
    ELSE (IF Head(h).from = "ACTION" /\ Head(h).to = "VERIFY" THEN 1 ELSE 0)
         + ActionVerifyCount(Tail(h))

C3_Safety ==
    /\ ActionVerifyCount(history) <= max_iterations
    /\ current = "COMPLETE" =>
          /\ ActionVerifyCount(history) = max_iterations
          /\ "final_result" \in DOMAIN data
          /\ data["final_result"] = MaxIterationsMsg(max_iterations)

\* C3: with bound N and the always-continue caller, the controller reaches
\* Complete with the 'Max iterations (N) reached' payload after exactly N
\* accepted Action -> Verify transitions, and never makes an (N+1)-th.
C3_BoundIsAbsolute == []C3_Safety /\ <>(current = "COMPLETE")

\* the forced completion happened and the caller's next action was refused
C3_Witness ==
    /\ caller_pc = "verify"
    /\ current = "COMPLETE"
    /\ max_iterations >= 2
    /\ lastCall = "on_action_done"
    /\ ret = "False"

\* C5: an accepted transition appends exactly one record (source, target,
\* payload), a rejected call appends none, and no operation (recover and
\* reset included) removes or rewrites a record.
C5_HistoryAppendOnly ==
    [][ /\ Len(history') >= Len(history)
        /\ SubSeq(history', 1, Len(history)) = history
        /\ (lastCall' \in HandlerNames /\ ret' = "True")
             => /\ Len(history') = Len(history) + 1
                /\ history'[Len(history')].from = current
                /\ history'[Len(history')].to = current'
                /\ data' = DictUpdate(data, history'[Len(history')].data)
        /\ (lastCall' \notin HandlerNames \/ ret' # "True")
             => history' = history ]_vars

\* recover() was accepted on a controller that already had records
C5_Witness ==
    /\ lastCall = "recover"
    /\ ret = "True"
    /\ Len(history) >= 4

\* C6: reset() in any state puts the controller in Idle with previous,
\* payload, error, iteration counter and queue cleared, history untouched.
C6_ResetClearsAllButHistory ==
    [][ lastCall' = "reset"
        => /\ current' = "IDLE"
           /\ previous' = None
           /\ data' = EmptyDict
           /\ error' = None
           /\ current_iteration' = 0
           /\ action_queue' = <<>>
           /\ history' = history ]_vars

\* reset() was called in Verify, with a counted iteration and a queued
\* action, and the four records are still there
C6_Witness ==
    /\ lastCall = "reset"
    /\ current = "IDLE"
    /\ Len(history) = 4
    /\ history[4].to = "VERIFY"
    /\ data = EmptyDict
    /\ action_queue = <<>>

----------------------------------------------------------------------------
(* Properties of the tool executor *)

\* C9: ToolExecutor.execute returns a result dict and lets no exception
\* escape, for every tool name and every input.
C9_ExecuteNeverRaises ==
    exec.pc = "done" =>
        /\ exec.out.raised = None
        /\ "success" \in DOMAIN exec.out.result

\* C21: with dry_run, a dispatch through ToolExecutor.execute spawns no
\* process, writes no file, makes no device call, and returns a result
\* carrying a success flag.
C21_DryRunPurity ==
    (exec.pc = "done" /\ exec.dry_run)
        => /\ exec.out.effects = {}
           /\ exec.out.raised = None
           /\ "success" \in DOMAIN exec.out.result

\* C22: after construction the dry_run flag of the mouse, keyboard and
\* screen primitives and of the executor (shell and file branches) is one
\* value, whichever libraries are missing.
C22_OneDryRunFlag ==
    exec.pc = "constructed" =>
        LET e == exec.executor
        IN  /\ e.computer.dry_run = e.dry_run
            /\ e.computer.mouse.dry_run = e.dry_run
            /\ e.computer.keyboard.dry_run = e.dry_run
            /\ e.computer.screen.dry_run = e.dry_run

\* C23: every result of ToolExecutor.execute has the three keys success,
\* output and error; success=true implies no error, success=false implies
\* an error and no output.
C23_FullEnvelope ==
    exec.pc = "done" =>
        /\ exec.out.raised = None
        /\ DOMAIN exec.out.result = {"success", "output", "error"}
        /\ exec.out.result["success"] => exec.out.result["error"] = None
        /\ ~exec.out.result["success"] =>
              /\ exec.out.result["error"] # None
              /\ exec.out.result["output"] = None

----------------------------------------------------------------------------
(* Properties of run() *)

\* C4: when run() uses up its max_iterations because every reply requested
\* an action, it ends with the controller in Complete, carrying the
\* max-iterations reason, and not in Error.
C4_ExhaustionEndsInComplete ==
    (run.pc = "returned" /\ run.exit = "exhausted")
        => /\ current = "COMPLETE"
           /\ "final_result" \in DOMAIN data
           /\ error = None

\* C7: whenever run() has returned, the controller is in Complete or Error.
C7_ReturnsInTerminalState ==
    run.pc = "returned" => current \in {"COMPLETE", "ERROR"}

\* C8: the execution of a requested action, failed or not, does not end the
\* run: one tool-result is added for it and the controller is not moved
\* (to Error or anywhere else) by it.
C8_ExecutionFailureIsFedBack ==
    [][ run.pc = "execute"
        => /\ run'.pc \in {"execute", "done"}
           /\ Len(run'.tool_results) = Len(run.tool_results) + 1
           /\ current' = current ]_vars

\* C10: when the model call fails (rate limit, authentication, any other
\* API error), run() returns with the controller in Error, success false
\* and an error message.
C10_ApiFailureEndsInError ==
    (run.pc = "returned" /\ run.exit \in {"rate_limit", "auth", "api_failed"})
        => /\ current = "ERROR"
           /\ ~run.result.success
           /\ run.result.error \notin {None, ""}

\* the default configuration of a real run: a client, no dry run, no
\* scaling target, initial screenshot on
DefaultConfiguration ==
    /\ agent.has_client /\ ~agent.dry_run /\ ~agent.scaling
    /\ run.initial_screenshot

\* C11: in the default configuration the run of a new agent reaches its
\* first model call, and when that reply carries no action request run()
\* returns success with iterations = 1 and the reply's text, has dispatched
\* no action, and leaves the controller in Complete.
C11_FirstReplyWithoutAction ==
    [][ /\ (DefaultConfiguration /\ run.pc = "screenshot" /\ Len(history) = 1)
            => run'.pc = "loop"
        /\ (DefaultConfiguration /\ run.pc = "loop" /\ run.i = 0
              /\ Len(history) = 2 /\ run'.exit = "final_answer")
            => /\ run'.pc = "returned"
               /\ run'.result.success
               /\ run'.result.iterations = 1
               /\ run'.result.response = "answer"
               /\ run'.dispatched = 0
               /\ current' = "COMPLETE" ]_vars

\* C12: when the first reply requests exactly one pointer click, the click
\* is dispatched and the run goes on; when the second reply is a final
\* answer, the run ends with exactly one action dispatched, the controller
\* in Complete and success true.
C12_OneClickThenAnswer ==
    [][ /\ (run.pc = "execute" /\ run.i = 0 /\ Len(history) = 3
              /\ run.tool_uses = <<ToolUse(1, "computer")>>)
            => /\ run'.pc = "done"
               /\ run'.dispatched = 1
        /\ (run.pc = "loop" /\ run.i = 1 /\ Len(history) = 5
              /\ run.tool_uses = <<ToolUse(1, "computer")>>
              /\ run'.exit = "final_answer")
            => /\ run'.result.success
               /\ run'.dispatched = 1
               /\ current' = "COMPLETE" ]_vars

----------------------------------------------------------------------------
(* Properties of the image-retention policy *)

\* the blocks of a transcript, in transcript order
RECURSIVE Flat(_)
Flat(list) == IF list = <<>> THEN <<>> ELSE Head(list) \o Flat(Tail(list))

\* positions of the image blocks of a transcript
ImagePositions(list) == {k \in DOMAIN Flat(list) : Flat(list)[k].type = "image"}

\* positions of the tool-result blocks that carry an image
CarriedImages(list) == {k \in DOMAIN Flat(list) : Flat(list)[k].images > 0}

\* C13: after _truncate_images the transcript holds at most
\* max_recent_images image blocks, those inside tool-result blocks
\* included, for every transcript and every configured maximum.
C13_AtMostMaxImages ==
    messages.pc = "truncated" =>
        Cardinality(ImagePositions(messages.list))
          + Cardinality(CarriedImages(messages.list)) <= messages.max_recent_images

\* C14: the policy keeps exactly the max_recent_images last image blocks
\* of the transcript and puts the placeholder in the place of every older
\* one; the number of turns, the number of blocks of each turn and every
\* other block are unchanged.
C14_KeepsMostRecentInPlace ==
    messages.pc = "truncated" =>
        LET b == Flat(messages.before)
            a == Flat(messages.list)
            later(k) == {j \in ImagePositions(messages.before) : j > k}
        IN  /\ Len(messages.list) = Len(messages.before)
            /\ \A t \in DOMAIN messages.list :
                   Len(messages.list[t]) = Len(messages.before[t])
            /\ \A k \in DOMAIN b :
                   a[k] = IF b[k].type = "image"
                             /\ Cardinality(later(k)) >= messages.max_recent_images
                          THEN Placeholder
                          ELSE b[k]

----------------------------------------------------------------------------
(* Properties of scaling *)

\* the keys of a device request that hold a coordinate
CoordinateKeys == {"coordinate", "start_coordinate", "end_coordinate"}

\* C15: every coordinate of a device request (click, move and scroll
\* coordinate, start and end of a drag) reaches the Tool Executor converted
\* once with the active Scaling Info; every other parameter, and every
\* coordinate when scaling is disabled, is passed through unchanged.
C15_CoordinatesConvertedOnce ==
    screen.pc = "dispatched" =>
        /\ DOMAIN screen.sent = DOMAIN screen.tool_input
        /\ \A k \in DOMAIN screen.tool_input :
              screen.sent[k] =
                 IF k \in CoordinateKeys
                 THEN to_original_coords(screen.capture.info,
                                         screen.tool_input[k][1], screen.tool_input[k][2])
                 ELSE screen.tool_input[k]

\* |a - b|
Distance(a, b) == IF a >= b THEN a - b ELSE b - a

\* C16: with an enabled Scaling Info, converting a point inside the
\* original bounds to model space and back moves it by at most one pixel
\* on each axis.
C16_RoundTripWithinOnePixel ==
    (/\ screen.pc = "converted"
     /\ screen.capture.info.enabled
     /\ screen.point[1] < screen.capture.info.original_width
     /\ screen.point[2] < screen.capture.info.original_height)
        => LET back == to_original_coords(screen.capture.info,
                                          screen.scaled[1], screen.scaled[2])
           IN  /\ Distance(back[1], screen.point[1]) <= 1
               /\ Distance(back[2], screen.point[2]) <= 1

\* round(x * scale) for a scale num / den (halves go to the even integer)
Round(x, scale) ==
    LET q == (x * scale.num) \div scale.den
        twice == 2 * ((x * scale.num) % scale.den)
    IN  IF twice < scale.den \/ (twice = scale.den /\ q % 2 = 0) THEN q ELSE q + 1

\* C17: with scaling enabled, to_original_coords(x, y) is
\* (round(x * scale_x), round(y * scale_y)).
C17_ToOriginalRounds ==
    (screen.pc = "converted" /\ screen.capture.info.enabled)
        => screen.original = << Round(screen.point[1], screen.capture.info.scale_x),
                                Round(screen.point[2], screen.capture.info.scale_y) >>

\* C18: when scaling is off, the loop holds a disabled Scaling Info (whose
\* to_original_coords is the identity).
C18_DisabledScalingInfoExists ==
    (~agent.scaling /\ run.pc \in {"loop", "decide", "execute", "done", "verify"})
        => agent.scaling_info = "disabled"

\* C19: every enabled Scaling Info of screenshot_scaled, real or dry run,
\* has scaled dimensions within the target, in the aspect ratio of the
\* screen (one ratio on both axes, so one axis reaches the target), and
\* scale factors W / scaled_width and H / scaled_height.
C19_UniformScaling ==
    (screen.pc = "captured" /\ screen.capture.info.enabled)
        => LET info == screen.capture.info
               w == screen.size[1]
               h == screen.size[2]
               larger == IF w >= h THEN w ELSE h
           IN  /\ info.scaled_width <= ScalingTarget(screen.target)[1]
               /\ info.scaled_height <= ScalingTarget(screen.target)[2]
               /\ \/ info.scaled_width = ScalingTarget(screen.target)[1]
                  \/ info.scaled_height = ScalingTarget(screen.target)[2]
               /\ Distance(info.scaled_width * h, info.scaled_height * w) < larger
               /\ info.scale_x = [num |-> w, den |-> info.scaled_width]
               /\ info.scale_y = [num |-> h, den |-> info.scaled_height]

----------------------------------------------------------------------------
(* Properties of the shell tool *)

\* C20: a shell request whose command contains a deny-listed pattern
\* returns success=false and spawns no process, whatever the dry_run
\* setting and the other fields of the request.
C20_DenyListBeforeSpawn ==
    (/\ exec.pc = "done"
     /\ exec.tool_name = "bash"
     /\ "command" \in DOMAIN exec.tool_input
     /\ \E d \in dangerous : Contains(exec.tool_input["command"], d))
        => /\ exec.out.raised = None
           /\ exec.out.result["success"] = FALSE
           /\ "spawn" \notin exec.out.effects


C25_RunsShareNothing ==
    suspended.pc = "parked" => Shared = suspended.shared


\* the position of an activation of run(): passes completed, then the
\* stage inside the pass (model call, one controller call per request, one
\* execution per request, on_action_done, on_verify_result)
PassLength == 2 * MaxTools + 3
Position(r) ==
    IF r.pc = "screenshot" THEN 0
    ELSE 1 + r.i * PassLength
           + (CASE r.pc = "loop" -> 0
                [] r.pc = "decide" -> r.j
                [] r.pc = "execute" -> MaxTools + r.j
                [] r.pc = "done" -> 2 * MaxTools + 1
                [] r.pc = "verify" -> 2 * MaxTools + 2
                [] OTHER -> 0)

\* C26: a run() never makes more than max_iterations model calls, and it
\* terminates: every step of a started run() either returns or moves it
\* forward to a position within max_iterations passes, whatever the
\* replies and tool outcomes.
C26_BoundedModelCalls ==
    /\ [](run.api_calls <= agent.max_iterations)
    /\ [][ run.pc \notin {"idle", "returned"}
           => \/ run'.pc = "returned"
              \/ /\ Position(run') > Position(run)
                 /\ Position(run') <= 1 + agent.max_iterations * PassLength ]_vars

\* a run returned after using its whole budget of several model calls
C26_Witness ==
    /\ run.pc = "returned"
    /\ agent.max_iterations > 1
    /\ run.api_calls = agent.max_iterations


\* C27: after _apply_cache_control, each of the cache_turns most recent
\* turns is marked: a non-empty block list has the marker on its last
\* block, and a bare string has become one text block with the string and
\* the marker.
C27_RecentTurnsMarked ==
    messages.pc = "applied" =>
        \A k \in 1..Len(messages.list) :
            Len(messages.list) - k < cache_turns =>
                LET old == messages.before[k].content
                    new == messages.list[k].content
                IN  /\ (old.kind = "list" /\ old.blocks # <<>>)
                        => new.blocks[Len(new.blocks)].cache_control
                    /\ old.kind = "str"
                        => /\ new.kind = "list"
                           /\ new.blocks = << TextBlock(old.text, TRUE) >>


\* C28: at a model call the device-action schema declares the scaled
\* capture's width and height exactly when scaling is enabled -- the
\* condition under which the coordinates of the reply are converted -- and
\* the configured display size otherwise.
C28_SchemaMatchesScaling ==
    screen.pc = "called" =>
        /\ screen.tools = IF screen.has_info /\ screen.info.enabled
                          THEN <<screen.info.scaled_width, screen.info.scaled_height>>
                          ELSE screen.display
        /\ screen.sent # screen.tool_input
             => screen.tools = <<screen.info.scaled_width, screen.info.scaled_height>>
        /\ screen.tools # screen.display
             => screen.sent = scaled_tool_input("computer", screen.tool_input, screen.info)

\* a model call with scaling enabled whose reply's coordinate was converted
C28_Witness ==
    /\ screen.pc = "called"
    /\ screen.has_info /\ screen.info.enabled
    /\ screen.tools # screen.display
    /\ screen.sent # screen.tool_input


\* C29: the controller's iteration counter (accepted Action -> Verify
\* transitions) advances by the number of action requests of the reply
\* that were dispatched to the Tool Executor, also for a reply with
\* several requests.  The passes considered are those of a controller
\* that follows the loop: it is in Action when the requests have run.
C29_IterationsCountActions ==
    [][ (run.pc = "done" /\ current = "ACTION" /\ run'.pc = "verify")
        => current_iteration' = current_iteration + Len(run.tool_results) ]_vars


\* the results r answer the requests u one for one, in order, by id
Answers(r, u) ==
    \A m \in 1..Len(r) :
        /\ m <= Len(u)
        /\ r[m].type = "tool_result"
        /\ r[m].tool_use_id = u[m].id

\* C30: the requests of a reply are executed one at a time in the order
\* listed, each exactly once: every execution consumes the next request
\* and adds its result, tagged with the request's id, at the end; when all
\* k have executed, the tool-result turn appended to the transcript holds
\* the k results in that order.
C30_RequestsExecutedInOrder ==
    /\ [](run.pc = "execute"
            => /\ Len(run.tool_results) = run.j - 1
               /\ Answers(run.tool_results, run.tool_uses))
    /\ [](run.pc = "verify"
            => /\ run.appended[2].role = "user"
               /\ Len(run.appended[2].content) = Len(run.tool_uses)
               /\ Answers(run.appended[2].content, run.tool_uses))
    /\ [][ (run.pc = "execute" /\ run'.pc # "returned")
           => /\ run'.dispatched = run.dispatched + 1
              /\ run'.j = run.j + 1
              /\ run'.tool_uses = run.tool_uses
              /\ run'.pc = IF run.j = Len(run.tool_uses) THEN "done" ELSE "execute"
              /\ Len(run'.tool_results) = run.j ]_vars

\* a reply with two requests was executed and its results were appended
C30_Witness ==
    /\ run.pc = "verify"
    /\ Len(run.tool_uses) = 2
    /\ run.appended[2].content[1].tool_use_id = run.tool_uses[1].id
    /\ run.appended[2].content[2].tool_use_id = run.tool_uses[2].id
    /\ run.tool_uses[1].id # run.tool_uses[2].id


\* C31: a request of the model is handed to the Tool Executor only while
\* the controller is in Action, in every run: also in a second run() on an
\* agent that was not reset, and in passes after the controller was forced
\* into Complete.
C31_DispatchOnlyInAction ==
    run.pc = "execute" => current = "ACTION"

\* C32: the iteration counter never exceeds the configured bound, and once
\* it has reached the bound no handler call takes the controller from
\* Verify back to Analyze.
C32_CounterWithinBound ==
    /\ [](current_iteration <= max_iterations)
    /\ [][ (current = "VERIFY" /\ current_iteration >= max_iterations)
           => current' # "ANALYZE" ]_vars


\* C33: when run() has returned, result.success is true exactly when the
\* controller is in Complete and false exactly when it is in Error, for
\* every configuration, dry run and exhaustion included.
C33_SuccessIffComplete ==
    run.pc = "returned" =>
        /\ run.result.success <=> current = "COMPLETE"
        /\ ~run.result.success <=> current = "ERROR"


\* C34: the history is a connected chain after any handler calls and
\* reset(): each record starts where the previous one ended, and the
\* current state is the target of the last record (Idle for no record).
C34_HistoryIsChain ==
    /\ \A k \in 2..Len(history) : history[k].from = history[k - 1].to
    /\ current = IF history = <<>> THEN "IDLE" ELSE history[Len(history)].to


\* the turn carries a cache-eligible marker
Marked(turn) ==
    \E j \in 1..Len(turn.content.blocks) : turn.content.blocks[j].cache_control

\* C35: at a model call at most cache_turns turns carry a marker; a turn
\* that is no longer among the cache_turns most recent carries none.
C35_AtMostThreeMarked ==
    messages.pc = "applied" =>
        /\ Cardinality({k \in 1..Len(messages.list) : Marked(messages.list[k])})
             <= cache_turns
        /\ \A k \in 1..Len(messages.list) :
             Len(messages.list) - k >= cache_turns => ~Marked(messages.list[k])


\* C36: converting a coordinate changes only what is dispatched: the
\* request held in the reply, which run() records as the assistant turn,
\* keeps the model-space coordinate the model issued.
C36_RequestKeepsModelCoordinate ==
    screen.pc = "dispatched" => screen.block_input = screen.tool_input


\* C37: at every model call _truncate_images, then _apply_cache_control,
\* then the request run in this order with no append in between, and all
\* turns of the earlier passes (the goal turn, then an assistant and a
\* tool-result turn per pass) are in the transcript by then.
C37_PoliciesBeforeEachCall ==
    [][ (run.pc = "loop" /\ run'.api_calls = run.api_calls + 1)
        => /\ SubSeq(run'.ops, 1, 3)
                = <<"truncate_images", "apply_cache_control", "create">>
           /\ \A k \in 1..Len(run.ops) : run.ops[k] = "append" \/ k <= 3
           /\ run.ops[Len(run.ops)] = "append"
           /\ agent.n_messages = 1 + 2 * run.i
           /\ agent'.n_messages = agent.n_messages ]_vars

\* the second model call of a run, after the turns of the first pass
C37_Witness ==
    /\ run.api_calls = 2
    /\ run.ops = <<"truncate_images", "apply_cache_control", "create">>
    /\ agent.n_messages = 3


\* C38: the error slot is set exactly when the current state is Error, and
\* a call moves it only as stated: error() sets it when its transition is
\* accepted, a rejected error() leaves it, recover() and reset() clear it.
C38_ErrorSlotIffError ==
    /\ [](error # None <=> current = "ERROR")
    /\ [][ /\ (lastCall' = "error" /\ ret' = "False") => error' = error
           /\ (lastCall' = "error" /\ ret' = "True")
                => error' # None /\ current' = "ERROR"
           /\ (lastCall' = "reset" \/ (lastCall' = "recover" /\ ret' = "True"))
                => error' = None ]_vars


\* C39: at every model call the transcript is the user goal turn followed
\* by strictly alternating assistant and user turns, and the tool-result
\* turn of the preceding pass holds exactly one result per request of the
\* assistant turn before it, each with that request's id.
C39_TranscriptAlternates ==
    [][ (run.pc = "loop" /\ run'.api_calls = run.api_calls + 1)
        => /\ Len(agent.roles) = agent.n_messages
           /\ agent.roles # <<>>
           /\ \A k \in 1..Len(agent.roles) :
                agent.roles[k] = IF k % 2 = 1 THEN "user" ELSE "assistant"
           /\ run.i = 0 => /\ Len(run.appended) = 1
                           /\ run.appended[1].role = "user"
                           /\ run.appended[1].content[1] = "text"
           /\ run.i > 0 => /\ Len(run.appended) = 2
                           /\ run.appended[1].role = "assistant"
                           /\ run.appended[2].role = "user"
                           /\ Len(run.appended[2].content)
                                = Len(run.appended[1].content)
                           /\ Answers(run.appended[2].content,
                                      run.appended[1].content) ]_vars

\* a model call on a transcript of the goal turn and two later turns
C39_Witness ==
    /\ run.api_calls = 2
    /\ run.ops[Len(run.ops)] = "create"
    /\ agent.roles = <<"user", "assistant", "user">>


----------------------------------------------------------------------------
(* fsm/controller.py: the event system (on, off, _emit).  A callback is    *)
(* one of two callables, one returning and one raising an Exception;       *)
(* `listeners.registered` maps each event to its list of callbacks, and    *)
(* `listeners.log` lists the callbacks invoked by the last call, each with *)
(* the controller state at the time it ran.                                *)

Callbacks == {"callback", "raising_callback"}

\* the events the handlers emit
EmittedEvents ==
    {"state_changed", "start", "screenshot_ready", "action_ready",
     "action_complete", "need_more", "complete", "error", "recovered"}

\* the events callbacks are registered for
ListenerEvents == {"state_changed", "start", "complete"}

NoListeners == [e \in EmittedEvents |-> <<>>]

\* FSMController.on
on(registered, event, callback) ==
    [registered EXCEPT ![event] = Append(@, callback)]

\* FSMController.off; callback "None" removes every callback of the event
off(registered, event, callback) ==
    [registered EXCEPT
       ![event] = IF callback = None
                  THEN <<>>
                  ELSE SelectSeq(@, LAMBDA cb : cb # callback)]

\* the callbacks invoked up to the first one that raises
emit_until_raise(registered, event, state) ==
    LET cbs == registered[event]
        stop == IF \E k \in 1..Len(cbs) : cbs[k] = "raising_callback"
                THEN CHOOSE k \in 1..Len(cbs) :
                       /\ cbs[k] = "raising_callback"
                       /\ \A m \in 1..(k - 1) : cbs[m] # "raising_callback"
                ELSE Len(cbs)
    IN  [k \in 1..stop |-> [event |-> event, callback |-> cbs[k], state |-> state]]

\* FSMController._emit: every callback of the event, in list order; an
\* Exception of a callback is caught and printed, and the loop goes on
emit(registered, event, state) ==
    [k \in 1..Len(registered[event]) |->
        [event |-> event, callback |-> registered[event][k], state |-> state]]

\* the event a handler emits after "state_changed"
EventOf(op, state) ==
    CASE op = "start" -> "start"
      [] op = "on_screenshot_taken" -> "screenshot_ready"
      [] op = "on_action_decided" -> "action_ready"
      [] op = "on_action_done" -> "action_complete"
      [] op = "need_more" -> "need_more"
      [] op = "complete" -> "complete"
      [] op = "error" -> "error"
      [] op = "recover" -> "recovered"
      [] op = "on_verify_result" ->
           IF state = "COMPLETE" THEN "complete" ELSE "need_more"

\* the two _emit calls at the end of a handler, made only 'if success'
Notify ==
    listeners' = [listeners EXCEPT
                    !.log = IF ret' = "True"
                            THEN emit(listeners.registered, "state_changed", current')
                                 \o emit(listeners.registered,
                                         EventOf(lastCall', current'), current')
                            ELSE <<>>]

NoCaller == UNCHANGED <<caller_pc, agent, run, suspended, exec, messages, screen>>

Registered ==
    Len(listeners.registered["state_changed"]) + Len(listeners.registered["start"])
      + Len(listeners.registered["complete"])

ListenOn ==
    /\ Registered < MaxListeners
    /\ \E e \in ListenerEvents, cb \in Callbacks :
         listeners' = [registered |-> on(listeners.registered, e, cb), log |-> <<>>]
    /\ lastCall' = "on"
    /\ ret' = None
    /\ UNCHANGED <<fsmVars, ctlVars>>
    /\ NoCaller

ListenOff ==
    /\ \E e \in ListenerEvents, cb \in Callbacks \cup {None} :
         listeners' = [registered |-> off(listeners.registered, e, cb), log |-> <<>>]
    /\ lastCall' = "off"
    /\ ret' = None
    /\ UNCHANGED <<fsmVars, ctlVars>>
    /\ NoCaller

\* a handler call with its notifications
ListenCall ==
    /\ Free
    /\ \/ \E g \in Goals : start(g)
       \/ \E sh \in Screenshots : on_screenshot_taken(sh)
       \/ \E a \in ActionTypes : on_action_decided(a)
       \/ on_action_done("results")
       \/ \E c \in BOOLEAN, r \in Reasons : on_verify_result(c, r)
       \/ \E r \in Reasons : need_more(r)
       \/ \E r \in Reasons : complete(r)
       \/ \E m \in ErrorMsgs : fsm_error(m)
       \/ recover
    /\ Notify
    /\ NoCaller

\* FSMController(): the bound is 20 and no callback is registered
InitListeners ==
    /\ InitController
    /\ max_iterations = DefaultMaxIterations
    /\ caller_pc = "inactive"
    /\ agent = Inactive
    /\ run = Inactive
    /\ suspended = Inactive
    /\ exec = Inactive
    /\ messages = Inactive
    /\ screen = Inactive
    /\ listeners = [registered |-> NoListeners, log |-> <<>>]

NextListeners ==
    \/ ListenOn
    \/ ListenOff
    \/ ListenCall

SpecListeners == InitListeners /\ [][NextListeners]_vars

\* C40: callbacks run only after an accepted transition is committed:
\* every callback of "state_changed" in registration order, then every
\* callback of the handler's own event in registration order, each run
\* with the controller already in the new state; a callback that raises does not undo the transition,
\* does not stop the callbacks after it, and the handler still returns
\* True.  A rejected call invokes none.
C40_ListenersAfterCommit ==
    [][ lastCall' \in HandlerNames
        => IF ret' = "True"
           THEN LET first == listeners.registered["state_changed"]
                    own == listeners.registered[EventOf(lastCall', current')]
                    log == listeners'.log
                IN  /\ Len(log) = Len(first) + Len(own)
                    /\ \A k \in 1..Len(first) :
                         /\ log[k].event = "state_changed"
                         /\ log[k].callback = first[k]
                    /\ \A k \in 1..Len(own) :
                         /\ log[Len(first) + k].event = EventOf(lastCall', current')
                         /\ log[Len(first) + k].callback = own[k]
                    /\ \A k \in 1..Len(log) : log[k].state = current'
                    /\ Len(history') = Len(history) + 1
                    /\ current' = history'[Len(history')].to
           ELSE listeners'.log = <<>> /\ history' = history ]_vars

\* an accepted start() notified a raising callback and then a later one
C40_Witness ==
    /\ lastCall = "start" /\ ret = "True"
    /\ current = "SCREENSHOT"
    /\ Len(listeners.log) = 2
    /\ listeners.log[1].callback = "raising_callback"
    /\ listeners.log[1].event = "state_changed"
    /\ listeners.log[2].event = "start"

================================================================
